---- MODULE Spec2Model ----
(***************************************************************************)
(* rpmdeplint: DependencySet (the result aggregator), the Repo cache       *)
(* lifecycle and the DependencyAnalyzer analyses, as state machines.       *)
(*                                                                         *)
(* A package is a record [name, evr, arch, reponame, ...]; str(pkg) is its *)
(* NEVRA, modelled as the tuple <<name, evr, arch>> (the repository name   *)
(* is not part of it).  Python lists are sequences, sets are sets, dicts   *)
(* and defaultdicts are functions whose DOMAIN is the set of keys.         *)
(***************************************************************************)
EXTENDS Integers, Sequences, FiniteSets, TLC

VARIABLES
    ds,             \* the DependencySet instance (its six private fields)
    calls,          \* log of the operations invoked on ds, in order
    before,         \* ds as it was before the last operation
    ret,            \* value returned by the last operation
    pc,             \* position of the running scenario
    repos,          \* the Repo objects handed to DependencyAnalyzer, in order
    npaths,         \* rpm paths still to be loaded by the constructor
    idx,            \* constructor: index of the next repo to fetch
    repos_by_name,  \* DependencyAnalyzer.repos_by_name: name -> index in repos
    exit_todo,      \* __exit__: repos its loop has not visited yet
    cleanups,       \* per repo: cleanup_cache calls made by __exit__
    late,           \* cleanup_cache calls made by the caller after __exit__
    pending,        \* exception raised inside the with block, if any
    raised,         \* exception that left the constructor / the with statement
    logged,         \* errors written to the log by cleanup_cache
    sack,           \* the packages loaded into the hawkey Sack
    packages,       \* DependencyAnalyzer.packages: the packages under test
    todo,           \* loop iterations an analysis has still to run
    result,         \* the list of problems an analysis has built so far
    step,           \* what the last loop iteration of an analysis did
    ok,             \* try_to_install_all: the flag it returns
    goals           \* the install goals handed to the resolver, in order

dsVars == <<ds, calls, before, ret>>
lifeVars == <<repos, npaths, idx, repos_by_name, exit_todo, cleanups, late,
              pending, raised, logged>>
anVars == <<sack, packages, todo, result, step, ok, goals>>
vars == <<ds, calls, before, ret, pc, repos, npaths, idx, repos_by_name,
          exit_todo, cleanups, late, pending, raised, logged,
          sack, packages, todo, result, step, ok, goals>>

\* ------------------------------------------------------------------ bounds
MaxOps == 3
MaxRepos == 3
MaxPaths == 1
MaxLate == 1
MaxSack == 3

\* ------------------------------------------------------------ generic helpers
Range(s) == {s[i] : i \in DOMAIN s}

\* dict lookup with a default (the read half of a defaultdict access)
DefaultGet(d, k, dflt) == IF k \in DOMAIN d THEN d[k] ELSE dflt

\* dict store d[k] = v
Put(d, k, v) == [x \in (DOMAIN d) \cup {k} |-> IF x = k THEN v ELSE d[x]]

EmptyDict == [x \in {} |-> {}]

\* str(pkg): the NEVRA of a package
Str(pkg) == <<pkg.name, pkg.evr, pkg.arch>>

\* list(map(str, dependencies))
MapStr(dependencies) == [i \in DOMAIN dependencies |-> Str(dependencies[i])]

\* ------------------------------------------------------------ DependencySet
\* defaultdict factory of _packagedeps
PackagedepsDefault == [dependencies |-> <<>>, problems |-> <<>>]

\* DependencySet.__init__
DependencySet ==
    [packagedeps            |-> EmptyDict,
     packages_with_problems |-> {},
     overall_problems       |-> {},
     repodeps               |-> EmptyDict,
     repo_packages          |-> EmptyDict,
     package_repo           |-> EmptyDict]

\* a plausible bug: the problems list is replaced instead of extended
add_package_replacing(d, pkg, reponame, dependencies, problems) ==
    LET nevra == Str(pkg)
        old   == DefaultGet(d.packagedeps, nevra, PackagedepsDefault)
        has   == Len(problems) # 0
    IN  [packagedeps |->
            Put(d.packagedeps, nevra,
                [dependencies |-> old.dependencies \o MapStr(dependencies),
                 problems     |-> IF has THEN problems ELSE old.problems]),
         repodeps |->
            Put(d.repodeps, reponame,
                DefaultGet(d.repodeps, reponame, {})
                    \cup {dependencies[i].reponame : i \in DOMAIN dependencies}),
         repo_packages |->
            Put(d.repo_packages, reponame,
                DefaultGet(d.repo_packages, reponame, {}) \cup {nevra}),
         package_repo |-> Put(d.package_repo, nevra, reponame),
         packages_with_problems |->
            IF has THEN d.packages_with_problems \cup {nevra}
                   ELSE d.packages_with_problems,
         overall_problems |->
            IF has THEN d.overall_problems \cup Range(problems)
                   ELSE d.overall_problems]

\* a plausible bug: the problem bookkeeping is done without the emptiness test
add_package_unguarded(d, pkg, reponame, dependencies, problems) ==
    LET nevra == Str(pkg)
        old   == DefaultGet(d.packagedeps, nevra, PackagedepsDefault)
    IN  [packagedeps |->
            Put(d.packagedeps, nevra,
                [dependencies |-> old.dependencies \o MapStr(dependencies),
                 problems     |-> old.problems \o problems]),
         repodeps |->
            Put(d.repodeps, reponame,
                DefaultGet(d.repodeps, reponame, {})
                    \cup {dependencies[i].reponame : i \in DOMAIN dependencies}),
         repo_packages |->
            Put(d.repo_packages, reponame,
                DefaultGet(d.repo_packages, reponame, {}) \cup {nevra}),
         package_repo |-> Put(d.package_repo, nevra, reponame),
         packages_with_problems |-> d.packages_with_problems \cup {nevra},
         overall_problems |-> d.overall_problems \cup Range(problems)]

\* DependencySet.add_package
add_package(d, pkg, reponame, dependencies, problems) ==
    LET nevra == Str(pkg)
        old   == DefaultGet(d.packagedeps, nevra, PackagedepsDefault)
        has   == Len(problems) # 0
    IN  [packagedeps |->
            Put(d.packagedeps, nevra,
                [dependencies |-> old.dependencies \o MapStr(dependencies),
                 problems     |-> IF has THEN old.problems \o problems
                                         ELSE old.problems]),
         repodeps |->
            Put(d.repodeps, reponame,
                DefaultGet(d.repodeps, reponame, {})
                    \cup {dependencies[i].reponame : i \in DOMAIN dependencies}),
         repo_packages |->
            Put(d.repo_packages, reponame,
                DefaultGet(d.repo_packages, reponame, {}) \cup {nevra}),
         package_repo |-> Put(d.package_repo, nevra, reponame),
         packages_with_problems |->
            IF has THEN d.packages_with_problems \cup {nevra}
                   ELSE d.packages_with_problems,
         overall_problems |->
            IF has THEN d.overall_problems \cup Range(problems)
                   ELSE d.overall_problems]

\* DependencySet.packages: the keys of _packagedeps (a list in no fixed order)
packages_of(d) == DOMAIN d.packagedeps

\* DependencySet.overall_problems
overall_problems_of(d) == d.overall_problems

\* DependencySet.packages_with_problems
packages_with_problems_of(d) == d.packages_with_problems

\* DependencySet.package_dependencies: dict(self._packagedeps)
package_dependencies(d) == d.packagedeps

\* DependencySet.repository_dependencies
repository_dependencies(d) == d.repodeps

\* DependencySet.repository_for_package: a plain dict lookup, KeyError if absent
repository_for_package(d, nevra) ==
    [ds  |-> d,
     ret |-> IF nevra \in DOMAIN d.package_repo
                THEN d.package_repo[nevra] ELSE "KeyError"]

\* DependencySet.dependencies_for_repository: self._repodeps[reponame] on a
\* defaultdict, which stores the default under a missing key
dependencies_for_repository(d, reponame) ==
    LET v == DefaultGet(d.repodeps, reponame, {})
    IN  [ds  |-> [d EXCEPT !.repodeps = Put(d.repodeps, reponame, v)],
         ret |-> v]

\* DependencySet.dependencies_for_package: self._packagedeps[nevra] on a
\* defaultdict, which stores the default under a missing key
dependencies_for_package(d, nevra) ==
    LET v == DefaultGet(d.packagedeps, nevra, PackagedepsDefault)
    IN  [ds  |-> [d EXCEPT !.packagedeps = Put(d.packagedeps, nevra, v)],
         ret |-> v.dependencies]

\* ---------------------------------------------- DependencySet: the scenario
Pkg(n, e, a, r) == [name |-> n, evr |-> e, arch |-> a, reponame |-> r]

\* packages handed to add_package; the first two share their NEVRA
DSPkgs == {Pkg("a", 1, "x86_64", "base"), Pkg("a", 1, "x86_64", "updates"),
           Pkg("b", 1, "x86_64", "base")}

DSDep1 == Pkg("libfoo", 1, "x86_64", "base")
DSDep2 == Pkg("libbar", 2, "x86_64", "updates")
DSDependencies == {<<>>, <<DSDep1>>, <<DSDep2, DSDep1>>}
DSProblems == {<<>>, <<"pa">>, <<"pb", "pa">>}
DSNevras == {Str(p) : p \in DSPkgs} \cup {Str(DSDep1)}
DSRepos == {"base", "updates", "extras"}

Op(name, pkg, reponame, dependencies, problems, key) ==
    [op |-> name, pkg |-> pkg, reponame |-> reponame,
     dependencies |-> dependencies, problems |-> problems, key |-> key]

NoPkg == Pkg("", 0, "", "")

\* values of the variables a scenario does not use
LifeIdleRest ==
    /\ repos = <<>> /\ npaths = 0 /\ idx = 0
    /\ exit_todo = {} /\ cleanups = <<>> /\ late = 0
    /\ pending = "none" /\ raised = "none" /\ logged = 0

LifeIdle == LifeIdleRest /\ repos_by_name = EmptyDict

NoStep == [outcome |-> "none"]

AnIdle ==
    /\ sack = {} /\ packages = <<>> /\ todo = <<>> /\ result = <<>>
    /\ step = NoStep /\ ok = "unset" /\ goals = <<>>

DSIdle ==
    /\ ds = DependencySet /\ calls = <<>> /\ before = DependencySet /\ ret = "None"

InitDS ==
    /\ ds = DependencySet
    /\ calls = <<>>
    /\ before = DependencySet
    /\ ret = "None"
    /\ pc = "ds"
    /\ LifeIdle
    /\ AnIdle

Call_add_package ==
    /\ pc = "ds" /\ Len(calls) < MaxOps
    /\ \E pkg \in DSPkgs, dependencies \in DSDependencies, problems \in DSProblems :
        /\ ds' = add_package(ds, pkg, pkg.reponame, dependencies, problems)
        /\ calls' = Append(calls, Op("add_package", pkg, pkg.reponame,
                                     dependencies, problems, "None"))
    /\ before' = ds
    /\ ret' = "None"
    /\ UNCHANGED <<pc, lifeVars, anVars>>

Call_dependencies_for_package ==
    /\ pc = "ds" /\ Len(calls) < MaxOps
    /\ \E nevra \in DSNevras :
        LET r == dependencies_for_package(ds, nevra)
        IN  /\ ds' = r.ds
            /\ ret' = r.ret
            /\ calls' = Append(calls, Op("dependencies_for_package", NoPkg, "",
                                         <<>>, <<>>, nevra))
    /\ before' = ds
    /\ UNCHANGED <<pc, lifeVars, anVars>>

Call_dependencies_for_repository ==
    /\ pc = "ds" /\ Len(calls) < MaxOps
    /\ \E reponame \in DSRepos :
        LET r == dependencies_for_repository(ds, reponame)
        IN  /\ ds' = r.ds
            /\ ret' = r.ret
            /\ calls' = Append(calls, Op("dependencies_for_repository", NoPkg, "",
                                         <<>>, <<>>, reponame))
    /\ before' = ds
    /\ UNCHANGED <<pc, lifeVars, anVars>>

Call_repository_for_package ==
    /\ pc = "ds" /\ Len(calls) < MaxOps
    /\ \E nevra \in DSNevras :
        LET r == repository_for_package(ds, nevra)
        IN  /\ ds' = r.ds
            /\ ret' = r.ret
            /\ calls' = Append(calls, Op("repository_for_package", NoPkg, "",
                                         <<>>, <<>>, nevra))
    /\ before' = ds
    /\ UNCHANGED <<pc, lifeVars, anVars>>

\* the five property accessors, read together
Call_views ==
    /\ pc = "ds" /\ Len(calls) < MaxOps
    /\ ret' = [packages |-> packages_of(ds),
               overall_problems |-> overall_problems_of(ds),
               packages_with_problems |-> packages_with_problems_of(ds),
               package_dependencies |-> package_dependencies(ds),
               repository_dependencies |-> repository_dependencies(ds)]
    /\ calls' = Append(calls, Op("views", NoPkg, "", <<>>, <<>>, "None"))
    /\ before' = ds
    /\ UNCHANGED <<ds, pc, lifeVars, anVars>>

NextDS ==
    \/ Call_add_package
    \/ Call_dependencies_for_package
    \/ Call_dependencies_for_repository
    \/ Call_repository_for_package
    \/ Call_views

SpecDS == InitDS /\ [][NextDS]_vars

\* ------------------------------------------------- DependencySet: properties
IsAdd(c) == c.op = "add_package"

\* NEVRAs and repository names that were passed to add_package so far
AddedNevras == {Str(calls[i].pkg) : i \in {j \in DOMAIN calls : IsAdd(calls[j])}}
AddedRepos == {calls[i].reponame : i \in {j \in DOMAIN calls : IsAdd(calls[j])}}

\* the add_package calls for one NEVRA, oldest first
RECURSIVE AddsFor(_, _)
AddsFor(log, nevra) ==
    IF log = <<>> THEN <<>>
    ELSE LET c == log[Len(log)]
             rest == AddsFor(SubSeq(log, 1, Len(log) - 1), nevra)
         IN  IF IsAdd(c) /\ Str(c.pkg) = nevra THEN Append(rest, c) ELSE rest

RECURSIVE ConcatDeps(_)
ConcatDeps(adds) ==
    IF adds = <<>> THEN <<>>
    ELSE ConcatDeps(SubSeq(adds, 1, Len(adds) - 1))
            \o MapStr(adds[Len(adds)].dependencies)

RECURSIVE ConcatProblems(_)
ConcatProblems(adds) ==
    IF adds = <<>> THEN <<>>
    ELSE ConcatProblems(SubSeq(adds, 1, Len(adds) - 1)) \o adds[Len(adds)].problems

LastCall == calls[Len(calls)]

\* C5 as stated: after a second add_package for the same NEVRA the recorded
\* dependency list is the stringified dependencies of that second call alone,
\* while the problems list holds the problems of all the calls in order and
\* every one of them is in overall_problems.
C5_Overwrites ==
    (calls # <<>> /\ IsAdd(LastCall)
        /\ Len(AddsFor(calls, Str(LastCall.pkg))) >= 2)
    => LET nevra == Str(LastCall.pkg)
       IN  /\ ds.packagedeps[nevra].dependencies = MapStr(LastCall.dependencies)
           /\ ds.packagedeps[nevra].problems = ConcatProblems(AddsFor(calls, nevra))
           /\ Range(ds.packagedeps[nevra].problems) \subseteq ds.overall_problems

\* C5 amended: after a second add_package for the same NEVRA the recorded
\* dependency list is the first call's stringified dependencies followed by the
\* second call's (extended, like the problems list), the problems list holds
\* the problems of all the calls in order, and every one of them is in
\* overall_problems.
C5_Extends ==
    \A nevra \in AddedNevras :
        LET adds == AddsFor(calls, nevra)
        IN  /\ ds.packagedeps[nevra].dependencies = ConcatDeps(adds)
            /\ ds.packagedeps[nevra].problems = ConcatProblems(adds)
            /\ Range(ds.packagedeps[nevra].problems) \subseteq ds.overall_problems

\* two add_package calls for one NEVRA, both with dependencies and problems
C5_Witness ==
    /\ Len(calls) = 2 /\ IsAdd(calls[1]) /\ IsAdd(calls[2])
    /\ Str(calls[1].pkg) = Str(calls[2].pkg)
    /\ calls[1].dependencies = <<DSDep1>> /\ calls[2].dependencies = <<DSDep2, DSDep1>>
    /\ calls[1].problems = <<"pa">> /\ calls[2].problems = <<"pb", "pa">>
    /\ ds.packagedeps[Str(calls[1].pkg)].problems = <<"pa", "pb", "pa">>
    /\ Len(ds.packagedeps[Str(calls[1].pkg)].dependencies) = 3

\* C6: overall_problems is the union of the per-package problem lists,
\* packages_with_problems is the set of NEVRAs with a non-empty problem list,
\* the one is empty iff the other is, and an add_package with no problems
\* tracks the package and leaves both sets as they were.
C6_ProblemSets ==
    /\ ds.overall_problems =
          UNION {Range(ds.packagedeps[k].problems) : k \in DOMAIN ds.packagedeps}
    /\ ds.packages_with_problems =
          {k \in DOMAIN ds.packagedeps : ds.packagedeps[k].problems # <<>>}
    /\ (ds.overall_problems # {}) <=> (ds.packages_with_problems # {})
    /\ (calls # <<>> /\ IsAdd(LastCall) /\ LastCall.problems = <<>>)
        => /\ Str(LastCall.pkg) \in packages_of(ds)
           /\ ds.overall_problems = before.overall_problems
           /\ ds.packages_with_problems = before.packages_with_problems

\* a package with problems was added, then another package with none
C6_Witness ==
    /\ Len(calls) = 2 /\ IsAdd(calls[1]) /\ IsAdd(calls[2])
    /\ calls[1].problems = <<"pb", "pa">> /\ calls[2].problems = <<>>
    /\ Str(calls[1].pkg) # Str(calls[2].pkg)
    /\ ds.overall_problems = {"pa", "pb"}
    /\ ds.packages_with_problems = {Str(calls[1].pkg)}
    /\ packages_of(ds) = {Str(calls[1].pkg), Str(calls[2].pkg)}

\* C8: the accessors are read-only. A lookup leaves ds as it was and returns
\* an empty result for a key never added, so the tracked packages are exactly
\* the NEVRAs passed to add_package, each with a package_repo entry, and the
\* repository edge map has keys only for repository names passed to it.
C8_AccessorsReadOnly ==
    /\ (calls # <<>> /\ ~IsAdd(LastCall)) => ds = before
    /\ (calls # <<>> /\ LastCall.op = "dependencies_for_package"
            /\ LastCall.key \notin AddedNevras) => ret = <<>>
    /\ (calls # <<>> /\ LastCall.op = "dependencies_for_repository"
            /\ LastCall.key \notin AddedRepos) => ret = {}
    /\ packages_of(ds) = AddedNevras
    /\ DOMAIN ds.package_repo = AddedNevras
    /\ DOMAIN ds.repodeps \subseteq AddedRepos

\* ------------------------------------------------------------------- Repo
\* Repo.__init__, with what the file system holds for it: isdir is
\* os.path.isdir(metadata_path); source is the state of that directory, cache
\* the state of the temporary directory made for it (absent until mkdtemp).
Repo(i, isdir) ==
    [name |-> <<"repo", i>>, isdir |-> isdir, has_handle |-> FALSE,
     local |-> FALSE, root_path |-> "unset", source |-> "present", cache |-> "absent"]

\* what can happen inside download_repodata: tempfile.mkdtemp raises (it is
\* only called when metadata_path is not a directory), h.perform(r) raises,
\* or both succeed
DownloadOutcomes(repo) ==
    IF repo.isdir THEN {"ok", "perform_raises"}
                  ELSE {"ok", "mkdtemp_raises", "perform_raises"}

\* Repo.download_repodata; librepo_handle is set on line 36, before
\* _root_path, so a failing mkdtemp leaves the handle without a root path
download_repodata(repo, outcome) ==
    [repo |-> IF repo.isdir
                THEN [repo EXCEPT !.has_handle = TRUE, !.local = TRUE,
                                  !.root_path = "metadata_path"]
              ELSE IF outcome = "mkdtemp_raises"
                THEN [repo EXCEPT !.has_handle = TRUE]
              ELSE [repo EXCEPT !.has_handle = TRUE, !.root_path = "tmpdir",
                                !.cache = "present"],
     raised |-> outcome # "ok"]

\* shutil.rmtree(path): OSError when the tree is not there or cannot be removed
rmtree(state, fault) ==
    IF state = "present" /\ ~fault
        THEN [state |-> "deleted", err |-> "none"]
        ELSE [state |-> state, err |-> "OSError"]

\* Repo.cleanup_cache; self.librepo_handle exists only once download_repodata
\* has been called and self._root_path only once it got past mkdtemp: reading
\* either before that raises AttributeError, which `except OSError` lets pass
cleanup_cache(repo, fault) ==
    IF ~repo.has_handle
        THEN [repo |-> repo, raises |-> "AttributeError", logged |-> 0]
    ELSE IF repo.local
        THEN [repo |-> repo, raises |-> "none", logged |-> 0]
    ELSE IF repo.root_path = "unset"
        THEN [repo |-> repo, raises |-> "AttributeError", logged |-> 0]
    ELSE LET r == IF repo.root_path = "tmpdir" THEN rmtree(repo.cache, fault)
                                               ELSE rmtree(repo.source, fault)
             after == IF repo.root_path = "tmpdir"
                        THEN [repo EXCEPT !.cache = r.state]
                        ELSE [repo EXCEPT !.source = r.state]
         IN  [repo |-> after, raises |-> "none",
              logged |-> IF r.err # "none" THEN 1 ELSE 0]

\* ------------------------------------- DependencyAnalyzer: its lifetime
\* The caller runs `with DependencyAnalyzer(repos, packages) as a: <analyses>`.
InitLife ==
    /\ \E n \in 0..MaxRepos : \E dirs \in [1..n -> BOOLEAN] :
            repos = [i \in 1..n |-> Repo(i, dirs[i])]
    /\ npaths \in 0..MaxPaths
    /\ idx = 1
    /\ repos_by_name = EmptyDict
    /\ exit_todo = {}
    /\ cleanups = [i \in DOMAIN repos |-> 0]
    /\ late = 0
    /\ pending = "none"
    /\ raised = "none"
    /\ logged = 0
    /\ pc = "init_repos"
    /\ DSIdle
    /\ AnIdle

\* __init__, one turn of the loop over repos: download_repodata, load_yum_repo,
\* then the entry in repos_by_name
init_repo ==
    /\ pc = "init_repos" /\ idx <= Len(repos)
    /\ \E outcome \in DownloadOutcomes(repos[idx]), load_ok \in BOOLEAN :
        LET d == download_repodata(repos[idx], outcome)
        IN  /\ repos' = [repos EXCEPT ![idx] = d.repo]
            /\ IF d.raised \/ ~load_ok
                 THEN /\ raised' = "RepositoryLoadError"
                      /\ pc' = "done"
                      /\ UNCHANGED <<repos_by_name, idx>>
                 ELSE /\ repos_by_name' = Put(repos_by_name, repos[idx].name, idx)
                      /\ idx' = idx + 1
                      /\ UNCHANGED <<raised, pc>>
    /\ UNCHANGED <<npaths, exit_todo, cleanups, late, pending, logged, dsVars, anVars>>

\* __init__, one turn of the loop over the rpm paths: add_cmdline_package;
\* after the last one the constructor returns and the with block is entered
init_package ==
    /\ pc = "init_repos" /\ idx > Len(repos)
    /\ IF npaths = 0
         THEN /\ pc' = "body"
              /\ UNCHANGED <<npaths, raised>>
         ELSE \E load_ok \in BOOLEAN :
                IF load_ok
                  THEN /\ npaths' = npaths - 1
                       /\ UNCHANGED <<pc, raised>>
                  ELSE /\ raised' = "PackageLoadError"
                       /\ pc' = "done"
                       /\ UNCHANGED npaths
    /\ UNCHANGED <<repos, idx, repos_by_name, exit_todo, cleanups, late, pending,
                   logged, dsVars, anVars>>

\* the analyses called inside the with block return, or one of them raises;
\* either way the with statement calls __exit__
analyses ==
    /\ pc = "body"
    /\ \E outcome \in {"none", "AnalysisError"} : pending' = outcome
    /\ exit_todo' = {repos_by_name[n] : n \in DOMAIN repos_by_name}
    /\ pc' = "exit"
    /\ UNCHANGED <<repos, npaths, idx, repos_by_name, cleanups, late, raised,
                   logged, dsVars, anVars>>

\* __exit__, one turn of the loop over repos_by_name.values(); __exit__ returns
\* None, so an exception of the with block is raised again after it
exit_repo ==
    /\ pc = "exit" /\ exit_todo # {}
    /\ \E i \in exit_todo, fault \in BOOLEAN :
        LET c == cleanup_cache(repos[i], fault)
        IN  /\ repos' = [repos EXCEPT ![i] = c.repo]
            /\ cleanups' = [cleanups EXCEPT ![i] = @ + 1]
            /\ logged' = logged + c.logged
            /\ exit_todo' = exit_todo \ {i}
            /\ IF c.raises # "none"
                 THEN pc' = "done" /\ raised' = IF c.raises = "OSError"
                                                THEN "OSError in __exit__"
                                                ELSE "AttributeError in __exit__"
                 ELSE UNCHANGED <<pc, raised>>
    /\ UNCHANGED <<npaths, idx, repos_by_name, late, pending, dsVars, anVars>>

exit_return ==
    /\ pc = "exit" /\ exit_todo = {}
    /\ raised' = pending
    /\ pc' = "done"
    /\ UNCHANGED <<repos, npaths, idx, repos_by_name, exit_todo, cleanups, late,
                   pending, logged, dsVars, anVars>>

\* the caller, who made the Repo objects, calls cleanup_cache on one of them
\* after the analyzer is gone
late_cleanup ==
    /\ pc = "done" /\ late < MaxLate
    /\ \E i \in DOMAIN repos, fault \in BOOLEAN :
        LET c == cleanup_cache(repos[i], fault)
        IN  /\ repos' = [repos EXCEPT ![i] = c.repo]
            /\ logged' = logged + c.logged
            /\ raised' = IF c.raises = "OSError"
                           THEN "OSError in cleanup_cache"
                         ELSE IF c.raises = "AttributeError"
                           THEN "AttributeError in cleanup_cache"
                         ELSE raised
    /\ late' = late + 1
    /\ UNCHANGED <<pc, npaths, idx, repos_by_name, exit_todo, cleanups, pending,
                   dsVars, anVars>>

NextLife ==
    \/ init_repo
    \/ init_package
    \/ analyses
    \/ exit_repo
    \/ exit_return
    \/ late_cleanup

SpecLife == InitLife /\ [][NextLife]_vars

\* h.perform(r) was reached for the repository: download_repodata got past
\* the choice of _root_path
FetchStarted(i) == repos[i].has_handle /\ repos[i].root_path # "unset"

\* C1: at the end of the Analyzer's lifetime every repository whose metadata
\* fetch was started by the constructor has had its cache released exactly
\* once, whether the analyses completed, an analysis raised, or the constructor
\* itself failed partway.
C1_ReleasedExactlyOnce ==
    pc = "done" => \A i \in DOMAIN repos : FetchStarted(i) => cleanups[i] = 1

\* C9: no failure of a cache release is raised out of cleanup_cache or out of
\* __exit__ (it is logged); __exit__ attempts the release of every repository
\* it holds; releasing an already deleted cache again does not raise; the
\* directory of a local repository is never deleted.
C9_CleanupNeverRaises ==
    /\ raised \notin {"OSError in __exit__", "OSError in cleanup_cache",
                       "AttributeError in __exit__",
                       "AttributeError in cleanup_cache"}
    /\ (pc = "done" /\ raised \notin {"RepositoryLoadError", "PackageLoadError"})
        => \A n \in DOMAIN repos_by_name : cleanups[repos_by_name[n]] >= 1
    /\ \A i \in DOMAIN repos : repos[i].isdir => repos[i].source = "present"

\* ------------------------------------------------- the Sack and its queries
\* The Sack after the constructor: the packages of the repositories and the
\* packages under test, which hawkey files under the repository @commandline.
\* A package is identified by its NEVRA; no two packages of a Sack share one.
CMDLINE == "@commandline"

Package(nevra, a) ==
    [name |-> nevra[1], evr |-> nevra[2], arch |-> nevra[3],
     reponame |-> a.reponame, requires |-> a.requires, provides |-> a.provides,
     obsoletes |-> a.obsoletes, conflicts |-> a.conflicts, files |-> a.files]

\* an Obsoletes entry [name, lt] is "Obsoletes: name < lt"
ObsoletesMatch(o, pkg) ==
    \E d \in o.obsoletes : d.name = pkg.name /\ pkg.evr < d.lt

\* the Sacks of at most MaxSack packages; no package obsoletes itself
Sacks(nevras, attrs) ==
    UNION {{{Package(n, f[n]) : n \in N} :
                f \in {g \in [N -> attrs] :
                          \A n \in N : ~ObsoletesMatch(Package(n, g[n]), Package(n, g[n]))}} :
              N \in {M \in SUBSET nevras : Cardinality(M) <= MaxSack}}

\* the order in which a query result or a list is iterated
RECURSIVE SetToSeq(_)
SetToSeq(S) ==
    IF S = {} THEN <<>>
    ELSE LET x == CHOOSE y \in S : TRUE IN <<x>> \o SetToSeq(S \ {x})

\* hawkey filter latest_per_arch=True: of the packages that pass the other
\* filters, those with the highest EVR for their name and architecture
Latest(S) ==
    {p \in S : \A q \in S : (q.name = p.name /\ q.arch = p.arch) => q.evr <= p.evr}

\* hawkey filter reponame__neq=name
NotFromRepo(S, name) == {p \in S : p.reponame # name}

\* hawkey filter obsoletes=[pkg]: the packages with an Obsoletes that matches pkg
Obsoleting(S, pkg) == {o \in S : ObsoletesMatch(o, pkg)}

\* hawkey filter provides=req
Providing(S, req) == {p \in S : req \in p.provides}

\* hawkey filter file=filename
Owning(S, filename) == {p \in S : filename \in DOMAIN p.files}

\* hawkey filter name=, arch=, evr__gt=
Newer(S, name, arch, evr) ==
    {p \in S : p.name = name /\ p.arch = arch /\ p.evr > evr}

\* DependencyAnalyzer.list_latest_packages
list_latest_packages(S) == Latest(S)

\* a capability is the sequence of the tokens of its text
RPMLIB_PREFIX == <<"rpmlib(">>

\* six.text_type(req).startswith(prefix)
startswith(text, prefix) ==
    Len(text) >= Len(prefix) /\ SubSeq(text, 1, Len(prefix)) = prefix

\* pkg in self.packages
InPackages(pkg, pkgs) == \E i \in DOMAIN pkgs : pkgs[i] = pkg

\* ------------------------------------------------ find_repoclosure_problems
\* 'nothing provides {} needed by {}'.format(req, pkg)
ClosureMsg(req, pkg) == <<"nothing provides", req, "needed by", Str(pkg)>>

\* The four values find_repoclosure_problems computes before its main loop
\* (lines 170-187), as the record q: available, available_from_repos,
\* obsoleted, obsoleted_from_repos.
closure_queries(S) ==
    LET available == Latest(S)
        available_from_repos == Latest(NotFromRepo(S, CMDLINE))
    IN  [available |-> available,
         available_from_repos |-> available_from_repos,
         obsoleted |-> {pkg \in available : Obsoleting(available, pkg) # {}},
         obsoleted_from_repos |->
            {pkg \in available_from_repos :
                Obsoleting(available_from_repos, pkg) # {}}]

\* a plausible bug: the pre-existing problems are not told apart
closure_requirement_unsuppressed(pkg, req, q) ==
    LET providers == Providing(q.available, req) \ q.obsoleted
    IN  IF providers = {} THEN <<ClosureMsg(req, pkg)>> ELSE <<>>

\* lines 199-213 for one requirement: the problems it appends
closure_requirement(pkg, req, q) ==
    LET providers == Providing(q.available, req) \ q.obsoleted
        repo_providers ==
            Providing(q.available_from_repos, req) \ q.obsoleted_from_repos
    IN  IF providers = {}
          THEN IF repo_providers = {} THEN <<>> ELSE <<ClosureMsg(req, pkg)>>
          ELSE <<>>

\* lines 196-213: the loop over pkg.requires
RECURSIVE closure_requires(_, _, _)
closure_requires(pkg, reqs, q) ==
    IF reqs = <<>> THEN <<>>
    ELSE LET req == Head(reqs)
             rest == closure_requires(pkg, Tail(reqs), q)
         IN  IF startswith(req, RPMLIB_PREFIX) THEN rest
             ELSE closure_requirement(pkg, req, q) \o rest

\* lines 188-213: the loop over available
RECURSIVE closure_packages(_, _, _)
closure_packages(pkgs, under_test, q) ==
    IF pkgs = <<>> THEN <<>>
    ELSE LET pkg == Head(pkgs)
             rest == closure_packages(Tail(pkgs), under_test, q)
         IN  IF InPackages(pkg, under_test) THEN rest
             ELSE IF pkg \in q.obsoleted THEN rest
             ELSE closure_requires(pkg, pkg.requires, q) \o rest

\* DependencyAnalyzer.find_repoclosure_problems
find_repoclosure_problems(S, under_test) ==
    LET q == closure_queries(S)
    IN  closure_packages(SetToSeq(q.available), under_test, q)

\* --------------------------------------------------- find_upgrade_problems
\* '{} would be upgraded by {} from repo {}'
UpgradeMsg(package, newer) ==
    <<Str(package), "would be upgraded by", Str(newer), "from repo", newer.reponame>>

\* '{} would be obsoleted by {} from repo {}'
ObsoleteMsg(package, obsoleting) ==
    <<Str(package), "would be obsoleted by", Str(obsoleting), "from repo",
      obsoleting.reponame>>

MapUpgrade(package, newer) == [i \in DOMAIN newer |-> UpgradeMsg(package, newer[i])]
MapObsolete(package, obs) == [i \in DOMAIN obs |-> ObsoleteMsg(package, obs[i])]

\* DependencyAnalyzer.find_upgrade_problems
RECURSIVE find_upgrade_problems(_, _)
find_upgrade_problems(S, under_test) ==
    IF under_test = <<>> THEN <<>>
    ELSE LET package == Head(under_test)
         IN  MapUpgrade(package,
                        SetToSeq(Newer(S, package.name, package.arch, package.evr)))
             \o MapObsolete(package, SetToSeq(Obsoleting(S, package)))
             \o find_upgrade_problems(S, Tail(under_test))

\* -------------------------------------------- the analyses: the scenarios
Cap == <<"libfoo.so">>
RpmlibCap == <<"rpmlib(", "PayloadIsXz)">>
NoFiles == [x \in {} |-> {}]
ClosureCaps == {Cap, RpmlibCap}
ObsA == [name |-> "a", lt |-> 2]
ObsB == [name |-> "b", lt |-> 2]

AnNevras == {<<"a", 1, "x86_64">>, <<"a", 2, "x86_64">>, <<"b", 1, "x86_64">>,
             <<"a", 1, "i686">>}

Attr(reponame, requires, provides, obsoletes, conflicts, files) ==
    [reponame |-> reponame, requires |-> requires, provides |-> provides,
     obsoletes |-> obsoletes, conflicts |-> conflicts, files |-> files]

ClosureAttrs ==
    {Attr(r, req, prov, obs, {}, NoFiles) :
        r \in {CMDLINE, "base"}, req \in {<<>>, <<RpmlibCap, Cap>>},
        prov \in {{}, {Cap, RpmlibCap}}, obs \in {{}, {ObsA}}}

UpgradeAttrs ==
    {Attr(r, <<>>, {}, obs, {}, NoFiles) :
        r \in {CMDLINE, "base"}, obs \in {{}, {ObsA}, {ObsB}}}

\* the state after DependencyAnalyzer.__init__ for a given Sack
AnalyzerState(S) ==
    /\ sack = S
    /\ packages = SetToSeq({p \in S : p.reponame = CMDLINE})
    /\ todo = <<>> /\ result = <<>> /\ step = NoStep /\ ok = "unset"
    /\ goals = <<>>
    /\ pc = "constructed"
    /\ DSIdle

Constructed(S) == AnalyzerState(S) /\ LifeIdle

InitClosure == \E S \in Sacks(AnNevras, ClosureAttrs) : Constructed(S)

Call_find_repoclosure_problems ==
    /\ pc = "constructed"
    /\ result' = find_repoclosure_problems(sack, packages)
    /\ pc' = "closure_done"
    /\ UNCHANGED <<sack, packages, todo, step, ok, goals, dsVars, lifeVars>>

NextClosure == Call_find_repoclosure_problems

SpecClosure == InitClosure /\ [][NextClosure]_vars

InitUpgrade == \E S \in Sacks(AnNevras, UpgradeAttrs) : Constructed(S)

Call_find_upgrade_problems ==
    /\ pc = "constructed"
    /\ result' = find_upgrade_problems(sack, packages)
    /\ pc' = "upgrade_done"
    /\ UNCHANGED <<sack, packages, todo, step, ok, goals, dsVars, lifeVars>>

NextUpgrade == Call_find_upgrade_problems

SpecUpgrade == InitUpgrade /\ [][NextUpgrade]_vars

\* ------------------------------------------------- find_repoclosure: claims
UnderTest == Range(packages)

\* the pairs (p, r) the claim names
ClosurePairs ==
    LET all == Latest(sack)
        repo == Latest({p \in sack : p.reponame # CMDLINE})
        live == {p \in all : ~\E o \in all : ObsoletesMatch(o, p)}
        repo_live == {p \in repo : ~\E o \in repo : ObsoletesMatch(o, p)}
    IN  {pr \in (live \ UnderTest) \X ClosureCaps :
            /\ pr[2] \in Range(pr[1].requires)
            /\ Head(pr[2]) # "rpmlib("
            /\ ~\E q \in live : pr[2] \in q.provides
            /\ \E q \in repo_live : pr[2] \in q.provides}

\* C2: find_repoclosure_problems returns "nothing provides r needed by p"
\* exactly for the pairs (p, r) with p latest-per-arch, not under test and not
\* obsoleted in the full universe, r a non-rpmlib requirement of p that no
\* non-obsoleted latest package of the full universe provides and that some
\* non-obsoleted latest package of the repositories alone provides; a
\* requirement also unsatisfied in the repositories alone is never reported.
C2_ClosureProblems ==
    pc = "closure_done" =>
        /\ Range(result) = {ClosureMsg(pr[2], pr[1]) : pr \in ClosurePairs}
        /\ \A p \in sack, r \in ClosureCaps :
              (~\E q \in Latest(NotFromRepo(sack, CMDLINE)) :
                    /\ r \in q.provides
                    /\ Obsoleting(Latest(NotFromRepo(sack, CMDLINE)), q) = {})
              => ClosureMsg(r, p) \notin Range(result)

\* a repository package's requirement is provided in the repositories, the
\* package under test takes the provider's place as the latest without
\* providing it, and the problem is reported; another requirement, provided
\* nowhere, is not
C2_Witness ==
    /\ pc = "closure_done"
    /\ Len(result) = 1
    /\ \E p \in sack, q \in sack, t \in sack :
        /\ p.reponame = "base" /\ q.reponame = "base" /\ t.reponame = CMDLINE
        /\ p.name = "b" /\ Cap \in Range(p.requires)
        /\ Cap \in q.provides /\ Cap \notin t.provides
        /\ q.name = t.name /\ q.arch = t.arch /\ q.evr < t.evr
        /\ result = <<ClosureMsg(Cap, p)>>

\* C7: find_upgrade_problems returns exactly one "would be upgraded by" string
\* for each package under test t and repository package n of the same name and
\* architecture with a greater EVR, exactly one "would be obsoleted by" string
\* for each t and repository package o that obsoletes t, and nothing else; a
\* package under test is never reported as the upgrader or obsoleter.
C7_UpgradeProblems ==
    pc = "upgrade_done" =>
        LET Count(m) == Cardinality({i \in DOMAIN result : result[i] = m})
            ups == {<<t, n>> \in UnderTest \X NotFromRepo(sack, CMDLINE) :
                       n.name = t.name /\ n.arch = t.arch /\ n.evr > t.evr}
            obs == {<<t, o>> \in UnderTest \X NotFromRepo(sack, CMDLINE) :
                       ObsoletesMatch(o, t)}
        IN  /\ \A x \in ups : Count(UpgradeMsg(x[1], x[2])) = 1
            /\ \A x \in obs : Count(ObsoleteMsg(x[1], x[2])) = 1
            /\ Range(result) = {UpgradeMsg(x[1], x[2]) : x \in ups}
                                   \cup {ObsoleteMsg(x[1], x[2]) : x \in obs}

\* ------------------------------------------------------ the resolver's text
\* A problem of hawkey.Goal.problems is its text, cut into pieces so that the
\* letters "conflicts" are a piece of their own wherever the text has them:
\* 'package a conflicts with b', 'nothing provides x needed by a' and
\* 'nothing provides conflicts-devel needed by a'.
PkgConflicts == <<"package ", "conflicts", " with">>
NothingProvides == <<"nothing provides ", "needed by">>
NothingProvidesConflictsDevel == <<"nothing provides ", "conflicts", "-devel needed by">>

\* the needle of line 228
CONFLICTS == <<"conflicts">>

\* sub in text, on str: sub occurs somewhere in text
Contains(text, sub) ==
    \E i \in 1..(Len(text) - Len(sub) + 1) :
        SubSeq(text, i, i + Len(sub) - 1) = sub

\* ------------------------------------------------------ try_to_install_all
\* DependencyAnalyzer.try_to_install; run is the Goal after g.run()
try_to_install(pkgs, run) ==
    [ok |-> run.succeeded,
     results |->
        IF run.succeeded
          THEN [installs |-> run.installs, upgrades |-> run.upgrades,
                erasures |-> run.erasures, problems |-> <<>>]
          ELSE [installs |-> <<>>, upgrades |-> <<>>, erasures |-> <<>>,
                problems |-> run.problems]]

\* a plausible bug: a package whose goal failed is not recorded
try_to_install_all_body_skipping(d, pkg, run) ==
    LET r == try_to_install(<<pkg>>, run)
    IN  IF r.ok
          THEN add_package(d, pkg, pkg.reponame, r.results.installs,
                           r.results.problems)
          ELSE d

\* try_to_install_all, lines 161-163: one turn of the loop
try_to_install_all_body(d, pkg, run) ==
    LET r == try_to_install(<<pkg>>, run)
    IN  add_package(d, pkg, pkg.reponame, r.results.installs, r.results.problems)

\* try_to_install_all, line 165
try_to_install_all_ok(d) == Cardinality(overall_problems_of(d)) = 0

\* what g.run() can leave in the Goal that installs pkg alone: a transaction
\* holding pkg and perhaps a dependency, or a non-empty list of problems
GoalRuns(S, pkg) ==
    {[succeeded |-> TRUE, installs |-> i, upgrades |-> <<>>, erasures |-> <<>>,
      problems |-> <<>>] : i \in {<<pkg>>} \cup {<<pkg, d>> : d \in S \ {pkg}}}
    \cup
    {[succeeded |-> FALSE, installs |-> <<>>, upgrades |-> <<>>,
      erasures |-> <<>>, problems |-> ps] :
        ps \in {<<NothingProvides>>, <<PkgConflicts, NothingProvides>>}}

InstallAttrs == {Attr(r, <<>>, {}, {}, {}, NoFiles) : r \in {CMDLINE, "base"}}

InitInstall == \E S \in Sacks(AnNevras, InstallAttrs) : Constructed(S)

try_to_install_all_begin ==
    /\ pc = "constructed"
    /\ ds' = DependencySet
    /\ todo' = packages
    /\ pc' = "installing"
    /\ UNCHANGED <<sack, packages, result, step, ok, goals, calls, before, ret,
                   lifeVars>>

try_to_install_all_iter ==
    /\ pc = "installing" /\ todo # <<>>
    /\ \E run \in GoalRuns(sack, Head(todo)) :
        /\ ds' = try_to_install_all_body(ds, Head(todo), run)
        /\ goals' = Append(goals, [packages |-> <<Head(todo)>>, run |-> run])
    /\ todo' = Tail(todo)
    /\ UNCHANGED <<sack, packages, result, step, ok, pc, calls, before, ret,
                   lifeVars>>

try_to_install_all_return ==
    /\ pc = "installing" /\ todo = <<>>
    /\ ok' = try_to_install_all_ok(ds)
    /\ pc' = "install_done"
    /\ UNCHANGED <<sack, packages, todo, result, step, goals, dsVars, lifeVars>>

NextInstall ==
    \/ try_to_install_all_begin
    \/ try_to_install_all_iter
    \/ try_to_install_all_return

SpecInstall == InitInstall /\ [][NextInstall]_vars

\* C4: try_to_install_all solves one single-package goal per package under
\* test, records every package under test in a fresh aggregator whether or
\* not other goals failed, and returns ok = TRUE iff the aggregator's overall
\* problem set is empty; with no packages under test it returns TRUE and an
\* aggregator with no packages.
C4_InstallAll ==
    pc = "install_done" =>
        /\ Len(goals) = Len(packages)
        /\ \A i \in DOMAIN goals : goals[i].packages = <<packages[i]>>
        /\ packages_of(ds) = {Str(p) : p \in Range(packages)}
        /\ \A i \in DOMAIN goals :
              LET rec == ds.packagedeps[Str(packages[i])]
              IN  IF goals[i].run.succeeded
                    THEN /\ rec.dependencies = MapStr(goals[i].run.installs)
                         /\ rec.problems = <<>>
                    ELSE /\ rec.dependencies = <<>>
                         /\ rec.problems = goals[i].run.problems
                         /\ Range(goals[i].run.problems) \subseteq ds.overall_problems
        /\ (ok = TRUE) <=> (ds.overall_problems = {})
        /\ ok \in BOOLEAN
        /\ packages = <<>> => (ok = TRUE /\ packages_of(ds) = {})

\* two packages under test: the first goal failed, the second succeeded, and
\* both packages are recorded
C4_Witness ==
    /\ pc = "install_done" /\ Len(packages) = 2 /\ ok = FALSE
    /\ ~goals[1].run.succeeded /\ goals[2].run.succeeded
    /\ Len(goals[2].run.installs) = 2
    /\ Cardinality(packages_of(ds)) = 2
    /\ ds.packages_with_problems = {Str(packages[1])}

\* ----------------------------------------------------------- find_conflicts
\* '{} provides {} which is also provided by {}'
ConflictMsg(package, filename, conflicting) ==
    <<Str(package), "provides", filename, "which is also provided by",
      Str(conflicting)>>

\* DependencyAnalyzer._packages_have_explicit_conflict; goal_problems is
\* g.problems after the joint goal has run
packages_have_explicit_conflict(left, right, goal_problems) ==
    Len(goal_problems) # 0 /\ Contains(goal_problems[1], CONFLICTS)

\* rpm.files entry .matches(): the recorded content of the two entries agrees
matches(l, r) == l.digest = r.digest

\* rpm.files(ts.hdrFromFdno(open(path, 'rb'))): the file entries recorded in
\* the header of the package at that path
rpm_files(package) == package.files

\* DependencyAnalyzer.download_package: the location of a package under test;
\* for any other package the Repo is looked up by name (KeyError when the
\* analyzer holds none of that name) and the call repo.download_package(...)
\* on line 137 raises AttributeError, because class Repo defines no such method
download_package(self, package) ==
    IF InPackages(package, self.packages)
      THEN [raises |-> "none", location |-> package]
    ELSE IF package.reponame \notin DOMAIN self.repos_by_name
      THEN [raises |-> "KeyError"]
    ELSE [raises |-> "AttributeError"]

\* DependencyAnalyzer._file_conflict_is_permitted; left is read first, then
\* right is located, which may raise before anything is compared
file_conflict_is_permitted(self, left, right, filename) ==
    LET left_files == rpm_files(left)
        right_path == download_package(self, right)
    IN  IF right_path.raises # "none" THEN [raises |-> right_path.raises]
        ELSE LET right_files == rpm_files(right_path.location)
             IN  IF matches(left_files[filename], right_files[filename])
                   THEN [raises |-> "none", permitted |-> TRUE]
                 ELSE IF left_files[filename].color # right_files[filename].color
                   THEN [raises |-> "none", permitted |-> TRUE]
                 ELSE [raises |-> "none", permitted |-> FALSE]

\* find_conflicts, lines 265-272: the body of the innermost loop
find_conflicts_body(self, problems, package, filename, conflicting, goal_problems) ==
    IF conflicting = package
      THEN [problems |-> problems, outcome |-> "self"]
    ELSE IF packages_have_explicit_conflict(package, conflicting, goal_problems)
      THEN [problems |-> problems, outcome |-> "explicit"]
    ELSE LET permitted == file_conflict_is_permitted(self, package, conflicting,
                                                     filename)
         IN  IF permitted.raises # "none"
               THEN [problems |-> problems, outcome |-> permitted.raises]
             ELSE IF ~permitted.permitted
               THEN [problems |-> Append(problems,
                                         ConflictMsg(package, filename, conflicting)),
                     outcome |-> "reported"]
             ELSE [problems |-> problems, outcome |-> "permitted"]

\* find_conflicts, lines 262-264: the iterations of the three nested loops
Triples(package, filename, owners) ==
    [i \in DOMAIN owners |-> <<package, filename, owners[i]>>]

RECURSIVE find_conflicts_files(_, _, _)
find_conflicts_files(S, package, filenames) ==
    IF filenames = <<>> THEN <<>>
    ELSE Triples(package, Head(filenames),
                 SetToSeq(Latest(Owning(S, Head(filenames)))))
         \o find_conflicts_files(S, package, Tail(filenames))

RECURSIVE find_conflicts_loops(_, _)
find_conflicts_loops(S, under_test) ==
    IF under_test = <<>> THEN <<>>
    ELSE find_conflicts_files(S, Head(under_test),
                              SetToSeq(DOMAIN Head(under_test).files))
         \o find_conflicts_loops(S, Tail(under_test))

\* an explicit RPM-level Conflicts between the two, in either direction
ExplicitConflict(p, q) == q.name \in p.conflicts \/ p.name \in q.conflicts

\* g.problems after installing left and right together: with a Conflicts
\* between them the goal fails and one of its problems says so; without one
\* the goal succeeds or fails for another reason, which may be a missing
\* requirement whose name has the letters "conflicts" in it
JointProblems(left, right) ==
    IF ExplicitConflict(left, right)
      THEN {<<PkgConflicts>>, <<NothingProvides, PkgConflicts>>}
      ELSE {<<>>, <<NothingProvides>>, <<NothingProvidesConflictsDevel>>}

Tool == "/usr/bin/tool"
FileEntry(digest, color) == [digest |-> digest, color |-> color]
ToolFiles ==
    {[f \in {Tool} |-> e] :
        e \in {FileEntry("d1", 1), FileEntry("d2", 1), FileEntry("d1", 2)}}

\* packages that ship the file, and one repository package that ships none
ConflictAttrs ==
    {Attr(r, <<>>, {}, {}, c, f) :
        r \in {CMDLINE, "base"}, c \in {{}, {"a", "b"}}, f \in ToolFiles}
    \cup {Attr("base", <<>>, {}, {}, {}, NoFiles)}

\* the Repo the constructor has put in repos_by_name under that name
LoadedRepo(name) ==
    [download_repodata(Repo(1, FALSE), "ok").repo EXCEPT !.name = name]

\* the analyzer either fetched the repository "base" itself, or was handed a
\* Sack (the sack argument of the constructor) that held it already
HeldRepos == <<{"base"}, {}>>

InitConflicts ==
    \E S \in Sacks(AnNevras, ConflictAttrs), k \in DOMAIN HeldRepos :
        /\ AnalyzerState(S)
        /\ LifeIdleRest
        /\ repos_by_name = [n \in HeldRepos[k] |-> LoadedRepo(n)]

find_conflicts_begin ==
    /\ pc = "constructed"
    /\ result' = <<>>
    /\ todo' = find_conflicts_loops(sack, packages)
    /\ pc' = "conflicts"
    /\ UNCHANGED <<sack, packages, step, ok, goals, dsVars, lifeVars>>

find_conflicts_iter ==
    /\ pc = "conflicts" /\ todo # <<>>
    /\ LET package == Head(todo)[1]
           filename == Head(todo)[2]
           conflicting == Head(todo)[3]
       IN  \E goal_problems \in (IF conflicting = package THEN {<<>>}
                                 ELSE JointProblems(package, conflicting)) :
             LET self == [packages |-> packages, repos_by_name |-> repos_by_name]
                 b == find_conflicts_body(self, result, package, filename,
                                          conflicting, goal_problems)
             IN  /\ result' = b.problems
                 /\ step' = [outcome |-> b.outcome, package |-> package,
                             filename |-> filename, conflicting |-> conflicting,
                             goal_problems |-> goal_problems]
                 \* an exception leaves find_conflicts: nothing is returned
                 /\ pc' = IF b.outcome \in {"KeyError", "AttributeError"}
                            THEN "conflicts_raised" ELSE pc
    /\ todo' = Tail(todo)
    /\ UNCHANGED <<sack, packages, ok, goals, dsVars, lifeVars>>

find_conflicts_return ==
    /\ pc = "conflicts" /\ todo = <<>>
    /\ pc' = "conflicts_done"
    /\ UNCHANGED <<sack, packages, todo, result, step, ok, goals, dsVars, lifeVars>>

NextConflicts ==
    \/ find_conflicts_begin
    \/ find_conflicts_iter
    \/ find_conflicts_return

SpecConflicts == InitConflicts /\ [][NextConflicts]_vars

\* the strings of the result that name p, q and f, in either order
Naming(p, q, f) ==
    {i \in DOMAIN result :
        result[i] \in {ConflictMsg(p, f, q), ConflictMsg(q, f, p)}}

\* C3: for distinct packages p and q that own the same path f, p under test,
\* q latest-per-arch (under test or not), with no explicit conflict between
\* them, find_conflicts returns a list that holds exactly one string naming p,
\* q and f when the two file entries differ and their colors are equal, and
\* none when the entries match or the colors differ.
C3_OneStringPerConflict ==
    pc \in {"conflicts_done", "conflicts_raised"} =>
        \A p \in UnderTest, q \in Latest(sack) :
            (p # q /\ Tool \in DOMAIN p.files /\ Tool \in DOMAIN q.files
                /\ ~ExplicitConflict(p, q))
            => /\ pc = "conflicts_done"
               /\ IF /\ p.files[Tool].digest # q.files[Tool].digest
                     /\ p.files[Tool].color = q.files[Tool].color
                    THEN Cardinality(Naming(p, q, Tool)) = 1
                    ELSE Cardinality(Naming(p, q, Tool)) = 0

\* C10: find_conflicts skips the pair when some problem of the joint goal,
\* at whatever position in the list, is the report of an explicit conflict
\* declaration, and does not skip it when the goal succeeds or no problem
\* reports one.
C10_SkipsOnAnyConflictProblem ==
    step.outcome \in {"explicit", "reported", "permitted", "KeyError",
                      "AttributeError"} =>
        ((step.outcome = "explicit") <=>
            \E i \in DOMAIN step.goal_problems :
                step.goal_problems[i] = PkgConflicts)

====
